---- MODULE Spec2Model ----
(***************************************************************************)
(* A model of zram_monitor: the sampling / model / render control loop of  *)
(* src/zram_monitor.py (main), its history buffers, its risk model         *)
(* (oom_risk) and the capacity projection shared with src/zram_free.py.    *)
(*                                                                         *)
(* Time is counted in units of 0.02 s, the length of the loop's poll sleep *)
(* (time.sleep(0.02)); the refresh interval is a whole number of units.    *)
(* Python floats are modelled as exact rationals <<n, d>> in lowest terms  *)
(* (d > 0).  The byte counts of the model are far below 2^50, where a      *)
(* correctly rounded quotient compares with the decimal thresholds of the  *)
(* code exactly as the rational does.                                      *)
(***************************************************************************)
EXTENDS Integers, Sequences, FiniteSets, TLC

VARIABLES
  pc,               \* "loop": inside while True (line 253); "exited": after break
  now,              \* what time.time() returns at line 254 of the next iteration
  last_tick,        \* last_tick (lines 251, 265)
  refresh,          \* refresh (lines 242, 260, 262)
  key,              \* key, the last result of stdscr.getch() (line 256)
  polled,           \* getch() was called since the last tick started
  wait_refresh,     \* refresh as it was when the current wait began
  w,                \* terminal width read by the last tick (line 268), 0 before
  hist_ram,         \* the five history deques (lines 245-249)
  hist_zram,
  hist_other_swap,
  hist_free_cons,
  hist_free_opt,
  frame,            \* what the last tick drew: "blank", "error", "nodevice", "full"
  risk_label,       \* risk_label of the last oom_risk call (line 319), "none" before
  src,              \* the output each tool or file had in the last tick
  log,              \* every 5-tuple of samples appended so far, oldest first
  args,             \* inputs of the pure function under check
  ret               \* its result

vars == <<pc, now, last_tick, refresh, key, polled, wait_refresh, w, hist_ram, hist_zram,
          hist_other_swap, hist_free_cons, hist_free_opt, frame, risk_label,
          src, log, args, ret>>

hists == <<hist_ram, hist_zram, hist_other_swap, hist_free_cons, hist_free_opt>>

loopVars == <<pc, now, last_tick, refresh, key, polled, wait_refresh, w, hist_ram, hist_zram,
              hist_other_swap, hist_free_cons, hist_free_opt, frame, risk_label,
              src, log>>

-----------------------------------------------------------------------------
(* Tuning constants, in time units of 0.02 s.                              *)

DEFAULT_REFRESH == 50
MIN_REFRESH == 10
MAX_REFRESH == 250
REFRESH_STEP == 5
POLL_SLEEP == 1

(* History sizing (lines 271, 273).                                        *)
GRAPH_MARGIN == 18
GRAPH_MIN == 10
HIST_SCREENS == 6
HIST_FLOOR == 60

-----------------------------------------------------------------------------
(* Exact rational arithmetic standing for the float arithmetic of the code *)

Max(a, b) == IF a >= b THEN a ELSE b
Min(a, b) == IF a <= b THEN a ELSE b

RECURSIVE Gcd(_, _)
Gcd(a, b) == IF b = 0 THEN a ELSE Gcd(b, a % b)

\* n / d as a float: the rational in lowest terms (d > 0, n >= 0)
Div(n, d) == LET g == Gcd(n, d) IN <<n \div g, d \div g>>

RLt(x, y) == x[1] * y[2] < y[1] * x[2]
RMulInt(k, x) == Div(k * x[1], x[2])
RAddInt(k, x) == Div(k * x[2] + x[1], x[2])
RDiv(x, y) == Div(x[1] * y[2], x[2] * y[1])
RPos(x) == x[1] > 0

\* a plausible slip: the value stored as computed, without clamping
clamp_off(x, lo, hi) == x

\* clamp(x, lo, hi), line 34
clamp(x, lo, hi) == IF RLt(x, lo) THEN lo ELSE IF RLt(hi, x) THEN hi ELSE x

ZERO == <<0, 1>>
ONE == <<1, 1>>

-----------------------------------------------------------------------------
(* Clipped text output.  A string is the sequence of its characters; a     *)
(* cell written is <<row, column, character>>.                             *)

\* stdscr.addstr(y, x, s) on a window of height x width cells, line 52: the
\* characters go to consecutive cells from (y, x), wrapping at the right
\* edge; curses.error when the text reaches the last cell of the window
addstr(height, width, y, x, s) ==
  [cells |-> {<<(y * width + x + i - 1) \div width, (y * width + x + i - 1) % width, s[i]>> :
                i \in {j \in 1..Len(s) : y * width + x + j - 1 < height * width}},
   error |-> y * width + x + Len(s) >= height * width]

\* a plausible slip: the clipping to the width left out, only the try is kept
safe_addstr_no_clip(height, width, y, x, s) ==
  IF y < 0 \/ y >= height \/ x >= width THEN [raised |-> FALSE, cells |-> {}]
  ELSE LET s1 == IF x < 0 THEN SubSeq(s, 1 - x, Len(s)) ELSE s
           x1 == IF x < 0 THEN 0 ELSE x
       IN IF s1 # <<>> THEN [raised |-> FALSE, cells |-> addstr(height, width, y, x1, s1).cells]
          ELSE [raised |-> FALSE, cells |-> {}]

\* safe_addstr, lines 41-54; curses.error is caught (line 53), so nothing is
\* raised to the caller
safe_addstr(height, width, y, x, s) ==
  IF y < 0 \/ y >= height \/ x >= width THEN [raised |-> FALSE, cells |-> {}]
  ELSE LET s1 == IF x < 0 THEN SubSeq(s, 1 - x, Len(s)) ELSE s
           x1 == IF x < 0 THEN 0 ELSE x
           s2 == SubSeq(s1, 1, Min(Len(s1), Max(0, width - x1 - 1)))
       IN IF s2 # <<>> THEN [raised |-> FALSE, cells |-> addstr(height, width, y, x1, s2).cells]
          ELSE [raised |-> FALSE, cells |-> {}]

-----------------------------------------------------------------------------
(* Sparklines.  A glyph of the ramp is named by its height in eighths of a *)
(* cell; the returned string is the sequence of its characters.            *)

\* SPARK_CHARS, line 17: the eight block characters, lowest first
SPARK_CHARS == <<"1/8", "2/8", "3/8", "4/8", "5/8", "6/8", "7/8", "8/8">>

\* round(x) of a float x >= 0 to an int: to the nearest, a tie to the even
PyRound(x) ==
  LET q == x[1] \div x[2]
      r == x[1] % x[2]
  IN IF 2 * r < x[2] THEN q
     ELSE IF 2 * r > x[2] THEN q + 1
     ELSE IF q % 2 = 0 THEN q ELSE q + 1

\* a plausible slip: values[:width] for values[-width:], the oldest samples
sparkline_head(values, width) ==
  IF width <= 0 THEN <<>>
  ELSE IF values = <<>> THEN [i \in 1..width |-> " "]
  ELSE LET vals == SubSeq(values, 1, Min(Len(values), width))
           out == [i \in 1..Len(vals) |->
                     SPARK_CHARS[PyRound(RMulInt(Len(SPARK_CHARS) - 1, clamp(vals[i], ZERO, ONE))) + 1]]
       IN IF Len(out) < width THEN [i \in 1..(width - Len(out)) |-> " "] \o out ELSE out

\* sparkline, lines 81-97
sparkline(values, width) ==
  IF width <= 0 THEN <<>>
  ELSE IF values = <<>> THEN [i \in 1..width |-> " "]
  ELSE LET vals == SubSeq(values, Max(1, Len(values) - width + 1), Len(values))
           out == [i \in 1..Len(vals) |->
                     SPARK_CHARS[PyRound(RMulInt(Len(SPARK_CHARS) - 1, clamp(vals[i], ZERO, ONE))) + 1]]
       IN IF Len(out) < width THEN [i \in 1..(width - Len(out)) |-> " "] \o out ELSE out

-----------------------------------------------------------------------------
(* History store                                                           *)

\* a plausible slip: if for while, at most one entry is dropped per call
trim_deque_if(dq, maxlen) == IF Len(dq) > maxlen THEN Tail(dq) ELSE dq

\* a plausible slip: the loop condition written len(dq) >= maxlen
RECURSIVE trim_deque_off_by_one(_, _)
trim_deque_off_by_one(dq, maxlen) ==
  IF Len(dq) >= maxlen /\ Len(dq) > 0 THEN trim_deque_off_by_one(Tail(dq), maxlen) ELSE dq

\* a plausible slip: pop() instead of popleft()
RECURSIVE trim_deque_pop_right(_, _)
trim_deque_pop_right(dq, maxlen) ==
  IF Len(dq) > maxlen THEN trim_deque_pop_right(SubSeq(dq, 1, Len(dq) - 1), maxlen) ELSE dq

\* trim_deque, lines 100-103: while len(dq) > maxlen: dq.popleft()
RECURSIVE trim_deque(_, _)
trim_deque(dq, maxlen) ==
  IF Len(dq) > maxlen THEN trim_deque(Tail(dq), maxlen) ELSE dq

\* graph_w, line 271
graph_w(width) == Max(GRAPH_MIN, width - GRAPH_MARGIN)

\* dyn_hist_len, line 273
dyn_hist_len(width) == Max(HIST_FLOOR, graph_w(width) * HIST_SCREENS)

-----------------------------------------------------------------------------
(* Data collection.  A provider is given the output of its tool or file;   *)
(* the classes of output are the ones the parsing code distinguishes.      *)

\* a plausible slip: the length guards left out, short output raises IndexError
get_mem_free_b_unguarded(out) ==
  IF out.kind \in {"fail", "garbled", "short"} THEN [raised |-> TRUE, total |-> 0, avail |-> 0]
  ELSE [raised |-> FALSE, total |-> out.total, avail |-> out.avail]

\* get_mem_free_b, lines 108-119.  out.kind: "fail" (sh raises), "short" (fewer
\* than 2 lines or fewer than 7 fields), "garbled" (int() raises), "ok"
get_mem_free_b(out) ==
  IF out.kind \in {"fail", "garbled"} THEN [raised |-> TRUE, total |-> 0, avail |-> 0]
  ELSE IF out.kind = "short" THEN [raised |-> FALSE, total |-> 0, avail |-> 0]
  ELSE [raised |-> FALSE, total |-> out.total, avail |-> out.avail]

\* the sums of get_swaps_from_proc's loop, lines 138-152; Size/Used are KiB
RECURSIVE SwapSum(_, _, _)
SwapSum(entries, zram, field) ==
  IF entries = <<>> THEN 0
  ELSE (IF Head(entries).zram = zram THEN Head(entries)[field] * 1024 ELSE 0)
       + SwapSum(Tail(entries), zram, field)

\* get_swaps_from_proc, lines 122-153.  out.kind: "unreadable" (open fails),
\* "garbled" (int() raises), "ok" (entries may be empty: header only)
get_swaps_from_proc(out) ==
  IF out.kind = "garbled"
    THEN [raised |-> TRUE, z_total |-> 0, z_used |-> 0, o_total |-> 0, o_used |-> 0]
  ELSE IF out.kind = "unreadable"
    THEN [raised |-> FALSE, z_total |-> 0, z_used |-> 0, o_total |-> 0, o_used |-> 0]
  ELSE [raised |-> FALSE,
        z_total |-> SwapSum(out.entries, TRUE, "size_kib"),
        z_used  |-> SwapSum(out.entries, TRUE, "used_kib"),
        o_total |-> SwapSum(out.entries, FALSE, "size_kib"),
        o_used  |-> SwapSum(out.entries, FALSE, "used_kib")]

\* ALGO_RATIOS, lines 20-24
ALGO_RATIOS == [a \in {"lz4", "lzo", "zstd"} |->
                  IF a = "lz4" THEN Div(20, 10)
                  ELSE IF a = "lzo" THEN Div(22, 10) ELSE Div(30, 10)]

\* ALGO_RATIOS.get(a, 2.0), line 187
AlgoRatio(a) == IF a \in DOMAIN ALGO_RATIOS THEN ALGO_RATIOS[a] ELSE Div(20, 10)

\* min(...) over a non-empty set of floats
RMin(S) == CHOOSE x \in S : \A y \in S : ~RLt(y, x)

\* the column sums of get_zramctl_bytes's loop, lines 177-184
RECURSIVE RowSum(_, _)
RowSum(rows, field) ==
  IF rows = <<>> THEN 0 ELSE Head(rows)[field] + RowSum(Tail(rows), field)

\* real_ratio, line 186
real_ratio_of(data, compr) == IF compr > 0 THEN Div(data, compr) ELSE ONE

\* a plausible slip: max for min, the most optimistic algorithm wins
cons_ratio_of_max(algos) ==
  IF algos # {} THEN CHOOSE x \in {AlgoRatio(a) : a \in algos} :
                       \A y \in {AlgoRatio(a) : a \in algos} : ~RLt(x, y)
  ELSE Div(20, 10)

\* cons_ratio, line 187
cons_ratio_of(algos) ==
  IF algos # {} THEN RMin({AlgoRatio(a) : a \in algos}) ELSE Div(20, 10)

\* ALGO_RATIOS of zram_free.py, lines 9-13
ZRAM_FREE_ALGO_RATIOS == [a \in {"lz4", "lzo", "zstd"} |->
                            IF a = "lz4" THEN Div(20, 10)
                            ELSE IF a = "lzo" THEN Div(22, 10) ELSE Div(30, 10)]

\* get_conservative_ratio of zram_free.py, lines 83-88: the list of the
\* ratios of the algorithms, then its minimum, 2.0 when the list is empty
get_conservative_ratio(algorithms) ==
  LET ratios == {IF algo \in DOMAIN ZRAM_FREE_ALGO_RATIOS
                   THEN ZRAM_FREE_ALGO_RATIOS[algo] ELSE Div(20, 10) : algo \in algorithms}
  IN IF ratios # {} THEN RMin(ratios) ELSE Div(20, 10)

NoZram == [raised |-> FALSE, none |-> TRUE, algos |-> {}, disksize |-> 0, data |-> 0,
           compr |-> 0, real_ratio |-> ONE, cons_ratio |-> ONE]

\* get_zramctl_bytes, lines 156-196.  out.kind: "fail" (sh raises), "nodev"
\* ("no devices found"), "short" (fewer than 2 lines), "noheader" (a column
\* is missing), "garbled" (int() raises), "ok" (rows: the rows long enough)
get_zramctl_bytes(out) ==
  IF out.kind \in {"fail", "garbled"} THEN [NoZram EXCEPT !.raised = TRUE]
  ELSE IF out.kind \in {"nodev", "short", "noheader"} THEN NoZram
  ELSE LET algos == {out.rows[i].algo : i \in DOMAIN out.rows}
           data  == RowSum(out.rows, "data")
           compr == RowSum(out.rows, "compr")
       IN [raised |-> FALSE, none |-> FALSE, algos |-> algos,
           disksize |-> RowSum(out.rows, "disksize"), data |-> data, compr |-> compr,
           real_ratio |-> real_ratio_of(data, compr),
           cons_ratio |-> cons_ratio_of(algos)]

-----------------------------------------------------------------------------
(* Risk model                                                              *)

\* a plausible slip: no short-circuit, a total of 0 taken as ratio 0.0
oom_risk_zero_ratio(total_ram, avail_ram, zram_phys_used, zram_phys_limit, other_swap_total, other_swap_used) ==
  LET ram_free_ratio == IF total_ram > 0 THEN Div(avail_ram, total_ram) ELSE ZERO
      zram_util == IF zram_phys_limit > 0 THEN Div(zram_phys_used, zram_phys_limit) ELSE ZERO
      other_free == other_swap_total - other_swap_used
      other_free_ratio == IF other_swap_total > 0 THEN Div(other_free, other_swap_total) ELSE ONE
  IN IF /\ RLt(ram_free_ratio, Div(6, 100))
        /\ RLt(Div(90, 100), zram_util)
        /\ (other_swap_total = 0 \/ RLt(other_free_ratio, Div(15, 100)))
       THEN <<"HIGH", 3, "low RAM, zram near full, swap low">>
     ELSE IF /\ RLt(ram_free_ratio, Div(10, 100))
             /\ \/ RLt(Div(88, 100), zram_util)
                \/ (other_swap_total > 0 /\ RLt(other_free_ratio, Div(12, 100)))
       THEN <<"WARN", 2, "ram getting low; swap/zram pressure">>
     ELSE IF /\ RLt(ram_free_ratio, Div(15, 100))
             /\ \/ RLt(Div(85, 100), zram_util)
                \/ (other_swap_total > 0 /\ RLt(other_free_ratio, Div(20, 100)))
       THEN <<"OK", 2, "watching (pressure rising)">>
     ELSE <<"SAFE", 1, "healthy headroom">>

\* a plausible slip: the RAM comparison of the HIGH rule turned round
oom_risk_high_sign_flipped(total_ram, avail_ram, zram_phys_used, zram_phys_limit, other_swap_total, other_swap_used) ==
  IF total_ram <= 0 THEN <<"UNKNOWN", 2, "no RAM data">>
  ELSE
    LET ram_free_ratio == Div(avail_ram, total_ram)
        zram_util == IF zram_phys_limit > 0 THEN Div(zram_phys_used, zram_phys_limit) ELSE ZERO
        other_free == other_swap_total - other_swap_used
        other_free_ratio == IF other_swap_total > 0 THEN Div(other_free, other_swap_total) ELSE ONE
    IN IF /\ RLt(Div(6, 100), ram_free_ratio)
          /\ RLt(Div(90, 100), zram_util)
          /\ (other_swap_total = 0 \/ RLt(other_free_ratio, Div(15, 100)))
         THEN <<"HIGH", 3, "low RAM, zram near full, swap low">>
       ELSE IF /\ RLt(ram_free_ratio, Div(10, 100))
               /\ \/ RLt(Div(88, 100), zram_util)
                  \/ (other_swap_total > 0 /\ RLt(other_free_ratio, Div(12, 100)))
         THEN <<"WARN", 2, "ram getting low; swap/zram pressure">>
       ELSE IF /\ RLt(ram_free_ratio, Div(15, 100))
               /\ \/ RLt(Div(85, 100), zram_util)
                  \/ (other_swap_total > 0 /\ RLt(other_free_ratio, Div(20, 100)))
         THEN <<"OK", 2, "watching (pressure rising)">>
       ELSE <<"SAFE", 1, "healthy headroom">>

\* a plausible slip: the WARN thresholds used in the HIGH rule
oom_risk_loose_high(total_ram, avail_ram, zram_phys_used, zram_phys_limit, other_swap_total, other_swap_used) ==
  IF total_ram <= 0 THEN <<"UNKNOWN", 2, "no RAM data">>
  ELSE
    LET ram_free_ratio == Div(avail_ram, total_ram)
        zram_util == IF zram_phys_limit > 0 THEN Div(zram_phys_used, zram_phys_limit) ELSE ZERO
        other_free == other_swap_total - other_swap_used
        other_free_ratio == IF other_swap_total > 0 THEN Div(other_free, other_swap_total) ELSE ONE
    IN IF /\ RLt(ram_free_ratio, Div(10, 100))
          /\ RLt(Div(88, 100), zram_util)
          /\ (other_swap_total = 0 \/ RLt(other_free_ratio, Div(15, 100)))
         THEN <<"HIGH", 3, "low RAM, zram near full, swap low">>
       ELSE IF /\ RLt(ram_free_ratio, Div(10, 100))
               /\ \/ RLt(Div(88, 100), zram_util)
                  \/ (other_swap_total > 0 /\ RLt(other_free_ratio, Div(12, 100)))
         THEN <<"WARN", 2, "ram getting low; swap/zram pressure">>
       ELSE IF /\ RLt(ram_free_ratio, Div(15, 100))
               /\ \/ RLt(Div(85, 100), zram_util)
                  \/ (other_swap_total > 0 /\ RLt(other_free_ratio, Div(20, 100)))
         THEN <<"OK", 2, "watching (pressure rising)">>
       ELSE <<"SAFE", 1, "healthy headroom">>

\* oom_risk, lines 201-222: (label, color_pair, explanation)
oom_risk(total_ram, avail_ram, zram_phys_used, zram_phys_limit, other_swap_total, other_swap_used) ==
  IF total_ram <= 0 THEN <<"UNKNOWN", 2, "no RAM data">>
  ELSE
    LET ram_free_ratio == Div(avail_ram, total_ram)
        zram_util == IF zram_phys_limit > 0 THEN Div(zram_phys_used, zram_phys_limit) ELSE ZERO
        other_free == other_swap_total - other_swap_used
        other_free_ratio == IF other_swap_total > 0 THEN Div(other_free, other_swap_total) ELSE ONE
    IN IF /\ RLt(ram_free_ratio, Div(6, 100))
          /\ RLt(Div(90, 100), zram_util)
          /\ (other_swap_total = 0 \/ RLt(other_free_ratio, Div(15, 100)))
         THEN <<"HIGH", 3, "low RAM, zram near full, swap low">>
       ELSE IF /\ RLt(ram_free_ratio, Div(10, 100))
               /\ \/ RLt(Div(88, 100), zram_util)
                  \/ (other_swap_total > 0 /\ RLt(other_free_ratio, Div(12, 100)))
         THEN <<"WARN", 2, "ram getting low; swap/zram pressure">>
       ELSE IF /\ RLt(ram_free_ratio, Div(15, 100))
               /\ \/ RLt(Div(85, 100), zram_util)
                  \/ (other_swap_total > 0 /\ RLt(other_free_ratio, Div(20, 100)))
         THEN <<"OK", 2, "watching (pressure rising)">>
       ELSE <<"SAFE", 1, "healthy headroom">>

-----------------------------------------------------------------------------
(* Capacity projection                                                     *)

\* the spec's reading of the projection, not the code's: limit * max(0, ratio - 1)
zram_capacity_extra_only(limit, ratio) ==
  IF RLt(ONE, ratio) THEN RMulInt(limit, RAddInt(-1, ratio)) ELSE ZERO

\* cons_zram_capacity / opt_zram_capacity, lines 304-305 (zram_free.py 108, 113)
zram_capacity(limit, ratio) == RMulInt(limit, ratio)

\* the locals of one tick of main, lines 291-323, from the providers' results
Assess(m, z, s) ==
  LET total_ram == m.total
      avail_ram == m.avail
      oswap_total == s.o_total
      oswap_used == s.o_used
      used_ram == Max(0, total_ram - avail_ram)
      zram_phys_limit == z.disksize
      zram_phys_used == z.compr
      oswap_free == Max(0, oswap_total - oswap_used)
      cons_zram_capacity == zram_capacity(zram_phys_limit, z.cons_ratio)
      opt_zram_capacity == zram_capacity(zram_phys_limit, z.real_ratio)
      free_cons_bytes == RAddInt(avail_ram + oswap_free, cons_zram_capacity)
      free_opt_bytes == RAddInt(avail_ram + oswap_free, opt_zram_capacity)
      total_cons_bytes == RAddInt(total_ram + oswap_total, cons_zram_capacity)
      total_opt_bytes == RAddInt(total_ram + oswap_total, opt_zram_capacity)
  IN [ram_used_ratio |-> IF total_ram > 0 THEN Div(used_ram, total_ram) ELSE ZERO,
      zram_phys_ratio |-> IF zram_phys_limit > 0 THEN Div(zram_phys_used, zram_phys_limit) ELSE ZERO,
      other_swap_ratio |-> IF oswap_total > 0 THEN Div(oswap_used, oswap_total) ELSE ZERO,
      cons_zram_capacity |-> cons_zram_capacity,
      opt_zram_capacity |-> opt_zram_capacity,
      free_cons_bytes |-> free_cons_bytes,
      free_opt_bytes |-> free_opt_bytes,
      total_cons_bytes |-> total_cons_bytes,
      total_opt_bytes |-> total_opt_bytes,
      free_cons_ratio |-> IF RPos(total_cons_bytes) THEN RDiv(free_cons_bytes, total_cons_bytes) ELSE ZERO,
      free_opt_ratio |-> IF RPos(total_opt_bytes) THEN RDiv(free_opt_bytes, total_opt_bytes) ELSE ZERO,
      risk |-> oom_risk(total_ram, avail_ram, zram_phys_used, zram_phys_limit,
                        oswap_total, oswap_used)]

-----------------------------------------------------------------------------
(* The control loop, main, lines 237-415                                   *)

\* the state when the loop is entered, lines 242-251
LoopInit ==
  /\ pc = "loop"
  /\ now = 0
  /\ last_tick = 0
  /\ refresh = DEFAULT_REFRESH
  /\ key = "ERR"
  /\ polled = FALSE
  /\ wait_refresh = DEFAULT_REFRESH
  /\ w = 0
  /\ hist_ram = <<>>
  /\ hist_zram = <<>>
  /\ hist_other_swap = <<>>
  /\ hist_free_cons = <<>>
  /\ hist_free_opt = <<>>
  /\ frame = "blank"
  /\ risk_label = "none"
  /\ src = [free |-> [kind |-> "notcalled"], zram |-> [kind |-> "notcalled"],
            swap |-> [kind |-> "notcalled"]]
  /\ log = <<>>

Init == LoopInit /\ args = <<>> /\ ret = <<>>

\* a plausible slip: else for the second elif, any other key slows down
refresh_after_else(k, r) ==
  IF k \in {"+", "="} THEN Max(MIN_REFRESH, r - REFRESH_STEP)
  ELSE Min(MAX_REFRESH, r + REFRESH_STEP)

\* a plausible slip: the bounds left out of the speed keys
refresh_after_unbounded(k, r) ==
  IF k \in {"+", "="} THEN r - REFRESH_STEP
  ELSE IF k \in {"-", "_"} THEN r + REFRESH_STEP
  ELSE r

\* the speed keys, lines 259-262
refresh_after(k, r) ==
  IF k \in {"+", "="} THEN Max(MIN_REFRESH, r - REFRESH_STEP)
  ELSE IF k \in {"-", "_"} THEN Min(MAX_REFRESH, r + REFRESH_STEP)
  ELSE r

\* one waiting iteration, lines 254-264: poll the keyboard, act, sleep for d.
\* limit bounds the clock of the model.
PollIter(k, d, limit) ==
  /\ pc = "loop"
  /\ now - last_tick < refresh
  /\ key' = k
  /\ polled' = TRUE
  /\ IF k = "q"
       THEN /\ pc' = "exited"
            /\ UNCHANGED <<now, refresh>>
       ELSE /\ now + d <= limit
            /\ pc' = "loop"
            /\ refresh' = refresh_after(k, refresh)
            /\ now' = now + d
  /\ UNCHANGED <<last_tick, wait_refresh, w, hist_ram, hist_zram, hist_other_swap,
                 hist_free_cons, hist_free_opt, frame, risk_label, src, log, args, ret>>

\* a plausible slip: the timer reset left out of the tick
TickBegin_no_reset(width, d, limit) ==
  /\ pc = "loop"
  /\ now - last_tick >= refresh
  /\ now + d <= limit
  /\ last_tick' = last_tick
  /\ now' = now + d
  /\ w' = width
  /\ polled' = FALSE
  /\ wait_refresh' = refresh
  /\ UNCHANGED <<refresh, key, args, ret>>

\* a plausible slip: the wait compares with the interval it started with
TickBegin_deferred(width, d, limit) ==
  /\ pc = "loop"
  /\ now - last_tick >= wait_refresh
  /\ now + d <= limit
  /\ last_tick' = now
  /\ now' = now + d
  /\ w' = width
  /\ polled' = FALSE
  /\ wait_refresh' = refresh
  /\ UNCHANGED <<refresh, key, args, ret>>

\* the start of a tick, lines 254-255 and 265-273; the whole tick takes d
TickBegin(width, d, limit) ==
  /\ pc = "loop"
  /\ now - last_tick >= refresh
  /\ now + d <= limit
  /\ last_tick' = now
  /\ now' = now + d
  /\ w' = width
  /\ polled' = FALSE
  /\ wait_refresh' = refresh
  /\ UNCHANGED <<refresh, key, args, ret>>

\* the try block, lines 275-278: the three calls, in order, until one raises
Raised(fo, zo, so) ==
  \/ get_mem_free_b(fo).raised
  \/ get_zramctl_bytes(zo).raised
  \/ get_swaps_from_proc(so).raised

\* a plausible slip: no except clause, the exception leaves main
TickErrorBody_uncaught(fo, zo, so) ==
  /\ Raised(fo, zo, so)
  /\ src' = [free |-> fo, zram |-> zo, swap |-> so]
  /\ frame' = "blank"
  /\ pc' = "exited"
  /\ UNCHANGED <<hist_ram, hist_zram, hist_other_swap, hist_free_cons, hist_free_opt,
                 risk_label, log>>

\* a provider raised, lines 279-282: the error notice, then continue
TickErrorBody(fo, zo, so) ==
  /\ Raised(fo, zo, so)
  /\ src' = [free |-> fo, zram |-> zo, swap |-> so]
  /\ frame' = "error"
  /\ pc' = "loop"
  /\ UNCHANGED <<hist_ram, hist_zram, hist_other_swap, hist_free_cons, hist_free_opt,
                 risk_label, log>>

\* the samples one full tick appends, lines 326-330
Samples(a) ==
  <<clamp(a.ram_used_ratio, ZERO, ONE), clamp(a.zram_phys_ratio, ZERO, ONE),
    clamp(a.other_swap_ratio, ZERO, ONE), clamp(a.free_cons_ratio, ZERO, ONE),
    clamp(a.free_opt_ratio, ZERO, ONE)>>

\* append then trim, lines 326-336
AppendTrim(dq, v, maxlen) == trim_deque(Append(dq, v), maxlen)

\* a plausible slip: the empty state falls through to the model and history
TickNoDeviceBody_falls_through(fo, zo, so) ==
  /\ ~Raised(fo, zo, so)
  /\ get_zramctl_bytes(zo).none
  /\ src' = [free |-> fo, zram |-> zo, swap |-> so]
  /\ frame' = "nodevice"
  /\ pc' = "loop"
  /\ LET a == Assess(get_mem_free_b(fo), get_zramctl_bytes(zo), get_swaps_from_proc(so))
         v == Samples(a)
     IN /\ hist_ram' = Append(hist_ram, v[1])
        /\ hist_zram' = Append(hist_zram, v[2])
        /\ hist_other_swap' = Append(hist_other_swap, v[3])
        /\ hist_free_cons' = Append(hist_free_cons, v[4])
        /\ hist_free_opt' = Append(hist_free_opt, v[5])
        /\ risk_label' = a.risk[1]
        /\ log' = Append(log, v)

\* no zram device, lines 284-289: the notice and the quit hint, then continue
TickNoDeviceBody(fo, zo, so) ==
  /\ ~Raised(fo, zo, so)
  /\ get_zramctl_bytes(zo).none
  /\ src' = [free |-> fo, zram |-> zo, swap |-> so]
  /\ frame' = "nodevice"
  /\ pc' = "loop"
  /\ UNCHANGED <<hist_ram, hist_zram, hist_other_swap, hist_free_cons, hist_free_opt,
                 risk_label, log>>

\* a plausible slip: hist_free_cons trimmed twice, hist_free_opt never
TickFullBody_trim_twice(width, fo, zo, so) ==
  /\ ~Raised(fo, zo, so)
  /\ ~get_zramctl_bytes(zo).none
  /\ src' = [free |-> fo, zram |-> zo, swap |-> so]
  /\ frame' = "full"
  /\ pc' = "loop"
  /\ LET a == Assess(get_mem_free_b(fo), get_zramctl_bytes(zo), get_swaps_from_proc(so))
         v == Samples(a)
         n == dyn_hist_len(width)
     IN /\ hist_ram' = AppendTrim(hist_ram, v[1], n)
        /\ hist_zram' = AppendTrim(hist_zram, v[2], n)
        /\ hist_other_swap' = AppendTrim(hist_other_swap, v[3], n)
        /\ hist_free_cons' = AppendTrim(hist_free_cons, v[4], n)
        /\ hist_free_opt' = Append(hist_free_opt, v[5])
        /\ risk_label' = a.risk[1]
        /\ log' = Append(log, v)

\* the full tick, lines 291-415: model, history, frame
TickFullBody(width, fo, zo, so) ==
  /\ ~Raised(fo, zo, so)
  /\ ~get_zramctl_bytes(zo).none
  /\ src' = [free |-> fo, zram |-> zo, swap |-> so]
  /\ frame' = "full"
  /\ pc' = "loop"
  /\ LET a == Assess(get_mem_free_b(fo), get_zramctl_bytes(zo), get_swaps_from_proc(so))
         v == Samples(a)
         n == dyn_hist_len(width)
     IN /\ hist_ram' = AppendTrim(hist_ram, v[1], n)
        /\ hist_zram' = AppendTrim(hist_zram, v[2], n)
        /\ hist_other_swap' = AppendTrim(hist_other_swap, v[3], n)
        /\ hist_free_cons' = AppendTrim(hist_free_cons, v[4], n)
        /\ hist_free_opt' = AppendTrim(hist_free_opt, v[5], n)
        /\ risk_label' = a.risk[1]
        /\ log' = Append(log, v)

-----------------------------------------------------------------------------
(* Outputs of the tools and files the providers read                       *)

FreeRec(kind, total, avail) == [kind |-> kind, total |-> total, avail |-> avail]
ZramRec(kind, rows) == [kind |-> kind, rows |-> rows]
ZramRow(algo, disksize, data, compr) == [algo |-> algo, disksize |-> disksize, data |-> data, compr |-> compr]
SwapRec(kind, entries) == [kind |-> kind, entries |-> entries]
SwapEntry(zram, size_kib, used_kib) == [zram |-> zram, size_kib |-> size_kib, used_kib |-> used_kib]

\* results of stdscr.getch(): "ERR" is -1 (no key pending), "x" any other key
Keys == {"q", "+", "=", "-", "_", "x", "ERR"}

-----------------------------------------------------------------------------
(* Spec: the loop's timing and keyboard.  Every key, ticks that take no    *)
(* time or as long as the shortest refresh interval, one terminal width,   *)
(* one outcome of each kind of tick.                                       *)

MaxTime == 41
MaxTickTime == 10

SleepDurs == {POLL_SLEEP}
TickDurs == {0, MaxTickTime}
Widths == {29}
FreeOuts == {FreeRec("fail", 0, 0), FreeRec("ok", 1000, 400)}
ZramOuts == {ZramRec("nodev", <<>>), ZramRec("ok", <<ZramRow("zstd", 1000, 900, 1000)>>)}
SwapOuts == {SwapRec("unreadable", <<>>)}

Poll == \E k \in Keys, d \in SleepDurs : PollIter(k, d, MaxTime)

TickError ==
  \E width \in Widths, d \in TickDurs, fo \in FreeOuts, zo \in ZramOuts, so \in SwapOuts :
    TickBegin(width, d, MaxTime) /\ TickErrorBody(fo, zo, so)

TickNoDevice ==
  \E width \in Widths, d \in TickDurs, fo \in FreeOuts, zo \in ZramOuts, so \in SwapOuts :
    TickBegin(width, d, MaxTime) /\ TickNoDeviceBody(fo, zo, so)

TickFull ==
  \E width \in Widths, d \in TickDurs, fo \in FreeOuts, zo \in ZramOuts, so \in SwapOuts :
    TickBegin(width, d, MaxTime) /\ TickFullBody(width, fo, zo, so)

Next == Poll \/ TickError \/ TickNoDevice \/ TickFull

Spec == Init /\ [][Next]_vars

-----------------------------------------------------------------------------
(* SpecData: the loop over the outcomes of the providers.  Fewer keys, a   *)
(* shorter run, two terminal widths, every class of provider output.       *)

MaxTimeData == 22

DataKeys == {"q", "+", "x", "ERR"}
DataWidths == {20, 29}
DataFreeOuts == {FreeRec("fail", 0, 0), FreeRec("short", 0, 0), FreeRec("ok", 1000, 400)}
DataZramOuts == {ZramRec("nodev", <<>>), ZramRec("fail", <<>>),
                 ZramRec("ok", <<ZramRow("zstd", 1000, 900, 1000), ZramRow("lz4", 1000, 300, 100)>>)}
DataSwapOuts == {SwapRec("unreadable", <<>>),
                 SwapRec("ok", <<SwapEntry(TRUE, 2, 1), SwapEntry(FALSE, 2, 1)>>)}

DataPoll == \E k \in DataKeys : PollIter(k, POLL_SLEEP, MaxTimeData)

DataTickError ==
  \E width \in DataWidths, fo \in DataFreeOuts, zo \in DataZramOuts, so \in DataSwapOuts :
    TickBegin(width, 0, MaxTimeData) /\ TickErrorBody(fo, zo, so)

DataTickNoDevice ==
  \E width \in DataWidths, fo \in DataFreeOuts, zo \in DataZramOuts, so \in DataSwapOuts :
    TickBegin(width, 0, MaxTimeData) /\ TickNoDeviceBody(fo, zo, so)

DataTickFull ==
  \E width \in DataWidths, fo \in DataFreeOuts, zo \in DataZramOuts, so \in DataSwapOuts :
    TickBegin(width, 0, MaxTimeData) /\ TickFullBody(width, fo, zo, so)

NextData == DataPoll \/ DataTickError \/ DataTickNoDevice \/ DataTickFull

SpecData == Init /\ [][NextData]_vars

-----------------------------------------------------------------------------
(* SpecHist: the loop over a long run, long enough for the history to be   *)
(* trimmed.  No key is pressed and every poll sleep lasts a whole default  *)
(* refresh interval (the process is stalled), so each poll is followed by  *)
(* a tick.  The tools report a steady drift: the n-th sample taken differs *)
(* from every other sample of the run.  The terminal is 28 or 29 columns   *)
(* wide (windows of 60 and 66 samples).                                    *)

MaxHistTicks == 64

HistWidths == {28, 29}
HistFreeOuts(n) == {FreeRec("fail", 0, 0), FreeRec("ok", 100, 100 - n)}
HistZramOuts(n) == {ZramRec("nodev", <<>>), ZramRec("ok", <<ZramRow("lzo", 100, 2 * n, n)>>)}
HistSwapOuts == {SwapRec("unreadable", <<>>)}

HistPoll == PollIter("ERR", DEFAULT_REFRESH, DEFAULT_REFRESH * MaxHistTicks)

HistTickError ==
  \E width \in HistWidths, fo \in HistFreeOuts(Len(log) + 1),
     zo \in HistZramOuts(Len(log) + 1), so \in HistSwapOuts :
    TickBegin(width, 0, DEFAULT_REFRESH * MaxHistTicks) /\ TickErrorBody(fo, zo, so)

HistTickNoDevice ==
  \E width \in HistWidths, fo \in HistFreeOuts(Len(log) + 1),
     zo \in HistZramOuts(Len(log) + 1), so \in HistSwapOuts :
    TickBegin(width, 0, DEFAULT_REFRESH * MaxHistTicks) /\ TickNoDeviceBody(fo, zo, so)

HistTickFull ==
  \E width \in HistWidths, fo \in HistFreeOuts(Len(log) + 1),
     zo \in HistZramOuts(Len(log) + 1), so \in HistSwapOuts :
    TickBegin(width, 0, DEFAULT_REFRESH * MaxHistTicks) /\ TickFullBody(width, fo, zo, so)

NextHist == HistPoll \/ HistTickError \/ HistTickNoDevice \/ HistTickFull

SpecHist == Init /\ [][NextHist]_vars

-----------------------------------------------------------------------------
(* SpecKeys: the speed keys against the pending tick, over more than one   *)
(* default interval, with a zram device present and ticks that take no     *)
(* measurable time                                                         *)

MaxTimeKeys == 64

KeysKeys == {"q", "+", "-", "ERR"}

KeysPoll == \E k \in KeysKeys : PollIter(k, POLL_SLEEP, MaxTimeKeys)

KeysTickFull ==
  /\ TickBegin(29, 0, MaxTimeKeys)
  /\ TickFullBody(29, FreeRec("ok", 1000, 400),
                  ZramRec("ok", <<ZramRow("zstd", 1000, 900, 1000)>>), SwapRec("unreadable", <<>>))

NextKeys == KeysPoll \/ KeysTickFull

SpecKeys == Init /\ [][NextKeys]_vars

-----------------------------------------------------------------------------
(* SpecTick: oom_risk and whole ticks of the loop on data source values    *)
(* that need not be consistent: a RAM total of 0 or below, available above *)
(* total, compressed above the limit, other swap used above its total.     *)
(* args = <<total, available, compr, limit, swap size KiB, swap used KiB>> *)

MaxTimeTick == 100

TickTotals == {-1, 0, 1000}
TickAvails == {59, 500, 1200}
TickComprs == {0, 901, 1100}
TickLimits == {0, 1000}
TickSwapTotals == {0, 100}
TickSwapUseds == {0, 90, 150}

InitTick ==
  /\ LoopInit
  /\ args \in {<<t, a, c, l, st, su>> : t \in TickTotals, a \in TickAvails, c \in TickComprs,
                                        l \in TickLimits, st \in TickSwapTotals, su \in TickSwapUseds}
  /\ ret = <<>>

TickCallRisk ==
  /\ ret = <<>>
  /\ ret' = <<oom_risk(args[1], args[2], args[3], args[4], args[5] * 1024, args[6] * 1024)>>
  /\ UNCHANGED <<loopVars, args>>

TickPoll == PollIter("ERR", DEFAULT_REFRESH, MaxTimeTick)

TickSample ==
  /\ TickBegin(29, 0, MaxTimeTick)
  /\ TickFullBody(29, FreeRec("ok", args[1], args[2]),
                  ZramRec("ok", <<ZramRow("lzo", args[4], 2 * args[3], args[3])>>),
                  SwapRec("ok", <<SwapEntry(FALSE, args[5], args[6])>>))

NextTick == TickCallRisk \/ TickPoll \/ TickSample

SpecTick == InitTick /\ [][NextTick]_vars

-----------------------------------------------------------------------------
(* SpecRisk: oom_risk applied to inputs around every threshold             *)

RiskTotals == {0, 1000}
RiskAvails == {59, 60, 61, 99, 100, 149, 150, 500}
RiskComprs == {850, 851, 880, 881, 900, 901}
RiskLimits == {0, 1000}
RiskSwapTotals == {0, 100}
RiskSwapUseds == {0, 80, 81, 85, 86, 88, 89, 100}

InitRisk ==
  /\ LoopInit
  /\ args \in {<<t, a, c, l, st, su>> : t \in RiskTotals, a \in RiskAvails, c \in RiskComprs,
                                        l \in RiskLimits, st \in RiskSwapTotals, su \in RiskSwapUseds}
  /\ ret = <<>>

CallRisk ==
  /\ ret = <<>>
  /\ ret' = <<oom_risk(args[1], args[2], args[3], args[4], args[5], args[6])>>
  /\ UNCHANGED <<loopVars, args>>

SpecRisk == InitRisk /\ [][CallRisk]_vars

-----------------------------------------------------------------------------
(* SpecCap: the capacity projection of one tick applied to provider        *)
(* results, with compression ratios below, at and above 1                  *)

CapTotals == {0, 1000}
CapAvails == {400, 1200}
CapLimits == {0, 1000}
CapDataCompr == {<<0, 0>>, <<900, 1000>>, <<500, 1000>>, <<2000, 1000>>}
CapAlgos == {{}, {"zstd"}, {"lzo"}, {"lz4", "zstd"}, {"lzo-rle"}}
CapSwapTotals == {0, 2048}
CapSwapUseds == {0, 1024, 4096}

CapZram(limit, dc, algos) ==
  [raised |-> FALSE, none |-> FALSE, algos |-> algos, disksize |-> limit,
   data |-> dc[1], compr |-> dc[2],
   real_ratio |-> real_ratio_of(dc[1], dc[2]), cons_ratio |-> cons_ratio_of(algos)]

InitCap ==
  /\ LoopInit
  /\ args \in {<<[raised |-> FALSE, total |-> t, avail |-> a], CapZram(l, dc, al),
                 [raised |-> FALSE, z_total |-> 0, z_used |-> 0, o_total |-> st, o_used |-> su]>> :
                 t \in CapTotals, a \in CapAvails, l \in CapLimits, dc \in CapDataCompr,
                 al \in CapAlgos, st \in CapSwapTotals, su \in CapSwapUseds}
  /\ ret = <<>>

CallAssess ==
  /\ ret = <<>>
  /\ ret' = <<Assess(args[1], args[2], args[3])>>
  /\ UNCHANGED <<loopVars, args>>

SpecCap == InitCap /\ [][CallAssess]_vars

-----------------------------------------------------------------------------
(* SpecTrim: trim_deque applied to every short series and bound            *)

MaxLen == 4

TrimValues == {ZERO, Div(1, 2), ONE}

SeqsUpTo(S, n) == UNION {[1..k -> S] : k \in 0..n}

InitTrim ==
  /\ LoopInit
  /\ args \in {<<dq, maxlen>> : dq \in SeqsUpTo(TrimValues, MaxLen), maxlen \in 0..(MaxLen + 1)}
  /\ ret = <<>>

CallTrim ==
  /\ ret = <<>>
  /\ ret' = <<trim_deque(args[1], args[2])>>
  /\ UNCHANGED <<loopVars, args>>

SpecTrim == InitTrim /\ [][CallTrim]_vars

-----------------------------------------------------------------------------
(* SpecRatio: the conservative ratio of both programs on every set of      *)
(* algorithm names, mapped and unmapped                                    *)

AlgoNames == {"lz4", "lzo", "zstd", "lzo-rle", "lz4hc", "deflate"}

InitRatio ==
  /\ LoopInit
  /\ args \in {<<algos>> : algos \in SUBSET AlgoNames}
  /\ ret = <<>>

CallRatio ==
  /\ ret = <<>>
  /\ ret' = <<[monitor |-> cons_ratio_of(args[1]), free |-> get_conservative_ratio(args[1])]>>
  /\ UNCHANGED <<loopVars, args>>

SpecRatio == InitRatio /\ [][CallRatio]_vars

-----------------------------------------------------------------------------
(* SpecAddstr: safe_addstr on small windows, at positions inside and       *)
(* outside them, with strings shorter and longer than the row; the i-th    *)
(* character of a string is i                                              *)

MaxCols == 4
MaxStr == 6

AddstrHeights == 1..2
AddstrWidths == 1..MaxCols
AddstrRows == -1..2
AddstrCols == -2..(MaxCols + 1)
AddstrStrings == {[i \in 1..n |-> i] : n \in 0..MaxStr}

InitAddstr ==
  /\ LoopInit
  /\ args \in {<<height, width, y, x, s>> : height \in AddstrHeights, width \in AddstrWidths,
                                             y \in AddstrRows, x \in AddstrCols, s \in AddstrStrings}
  /\ ret = <<>>

CallAddstr ==
  /\ ret = <<>>
  /\ ret' = <<safe_addstr(args[1], args[2], args[3], args[4], args[5])>>
  /\ UNCHANGED <<loopVars, args>>

SpecAddstr == InitAddstr /\ [][CallAddstr]_vars

-----------------------------------------------------------------------------
(* SpecSpark: sparkline on every short series, for widths below, at and    *)
(* above its length, zero and negative widths included                     *)

SparkValues == {ZERO, Div(1, 4), Div(1, 2), ONE, Div(3, 2)}
SparkWidths == -1..(MaxLen + 1)

InitSpark ==
  /\ LoopInit
  /\ args \in {<<values, width>> : values \in SeqsUpTo(SparkValues, MaxLen), width \in SparkWidths}
  /\ ret = <<>>

CallSpark ==
  /\ ret = <<>>
  /\ ret' = <<sparkline(args[1], args[2])>>
  /\ UNCHANGED <<loopVars, args>>

SpecSpark == InitSpark /\ [][CallSpark]_vars

-----------------------------------------------------------------------------
(* Properties                                                              *)

\* window_length as the specification states it, from the terminal width
WindowLength(width) == Max(60, 6 * Max(10, width - 18))

\* the i-th series of the samples taken so far, oldest first
Column(i) == [k \in 1..Len(log) |-> log[k][i]]

\* the last n entries of s
LastOf(s, n) == SubSeq(s, Len(s) - n + 1, Len(s))

\* the step is a tick (every tick, and only a tick, moves last_tick)
IsTick == last_tick' # last_tick

\* C1 as stated: after every completed tick, a tick without a zram device or
\* with a failed data source included, each of the five series is at most
\* the window_length computed in that tick long.
C1_LengthWithinWindowAfterEveryTick ==
  frame # "blank" => \A i \in 1..5 : Len(hists[i]) <= WindowLength(w)

\* C1 amended: after every completed tick that sampled (a zram device was
\* present and no provider raised), each of the five series is at most the
\* window_length computed in that tick long.
C1_LengthWithinWindowAfterSampling ==
  frame = "full" => \A i \in 1..5 : Len(hists[i]) <= WindowLength(w)

\* a sampling tick has trimmed: the series are full and older samples are gone
C1_Witness ==
  /\ frame = "full"
  /\ Len(hist_ram) = WindowLength(w)
  /\ Len(log) > Len(hist_ram)

\* C2: between any two consecutive ticks the loop polls the keyboard at
\* least once, however long the previous tick took: a tick starts only after
\* getch() was called since the tick before it.
C2_PollBetweenTicks == [][IsTick => polled]_vars

\* C3: the loop is left only by the quit key: whenever main has left the
\* loop, the key last read is 'q', whatever ticks, failures, empty states,
\* other keys and terminal widths came before.
C3_ExitOnlyByQuit == pc = "exited" => key = "q"

\* the loop was left after a tick whose provider had raised
C3_Witness == pc = "exited" /\ key = "q" /\ frame = "error"

\* C4 as stated: when the memory provider raises in a tick while a zram
\* device exists, the tick still runs the risk model (label UNKNOWN), takes
\* one sample and draws the normal frame.
C4_FailedProviderCountsAsZero ==
  [][(IsTick /\ src'.free.kind = "fail" /\ src'.zram.kind = "ok")
       => (/\ frame' = "full"
           /\ risk_label' = "UNKNOWN"
           /\ Len(log') = Len(log) + 1)]_vars

\* C4 amended: when a provider call raises in a tick (the memory provider or
\* the zram provider), the tick draws only the data-error notice and skips the
\* risk model, the history and the normal frame, and the loop goes on; only a
\* provider that returns zeros without raising (the memory provider on output
\* too short to parse) is treated as all-zero: then, with a zram device, the
\* tick runs the risk model (label UNKNOWN), takes one sample (RAM used 0)
\* and draws the normal frame.
C4_RaisingProviderSkipsTick ==
  [][IsTick =>
       /\ (src'.free.kind = "fail" \/ (src'.free.kind # "fail" /\ src'.zram.kind = "fail"))
            => (/\ frame' = "error"
                /\ pc' = "loop"
                /\ UNCHANGED <<hist_ram, hist_zram, hist_other_swap, hist_free_cons,
                               hist_free_opt, risk_label, log, refresh>>)
       /\ (src'.free.kind = "short" /\ src'.zram.kind = "ok")
            => (/\ frame' = "full"
                /\ pc' = "loop"
                /\ risk_label' = "UNKNOWN"
                /\ Len(log') = Len(log) + 1
                /\ hist_ram'[Len(hist_ram')] = ZERO)]_vars

\* the memory provider raised while a zram device existed: the error notice
C4_Witness ==
  /\ frame = "error"
  /\ src.free.kind = "fail"
  /\ src.zram.kind = "ok"
  /\ Len(log) = 1

\* C5: a tick in which the zram provider returns the "no devices" sentinel
\* draws only the empty-state notice, calls neither the risk model nor the
\* history store (the five series, the samples taken, the risk label and the
\* refresh interval are unchanged) and returns to waiting.
C5_NoDeviceTickChangesNothing ==
  [][(IsTick /\ src'.free.kind # "fail" /\ src'.zram.kind = "nodev")
       => (/\ frame' = "nodevice"
           /\ pc' = "loop"
           /\ UNCHANGED <<hist_ram, hist_zram, hist_other_swap, hist_free_cons,
                          hist_free_opt, risk_label, log, refresh>>)]_vars

\* a tick found no device after an earlier tick had sampled
C5_Witness ==
  /\ frame = "nodevice"
  /\ src.zram.kind = "nodev"
  /\ Len(hist_ram) = 1
  /\ risk_label # "none"

\* C6: the refresh interval stays within [MIN_REFRESH, MAX_REFRESH]; a
\* faster key lowers it by one step but never below the floor, a slower key
\* raises it by one step but never above the ceiling.
C6_RefreshWithinBounds ==
  /\ [](MIN_REFRESH <= refresh /\ refresh <= MAX_REFRESH)
  /\ [][(~IsTick /\ key' \in {"+", "="})
          => refresh' = (IF refresh - REFRESH_STEP < MIN_REFRESH
                           THEN MIN_REFRESH ELSE refresh - REFRESH_STEP)]_vars
  /\ [][(~IsTick /\ key' \in {"-", "_"})
          => refresh' = (IF refresh + REFRESH_STEP > MAX_REFRESH
                           THEN MAX_REFRESH ELSE refresh + REFRESH_STEP)]_vars

\* a slower key was read with the interval at its ceiling
C6_Witness == refresh = MAX_REFRESH /\ key \in {"-", "_"} /\ now > 40

\* the label the rules of C7 give, on integers: x/y < k/100 as 100x < ky
C7Label(t, a, c, l, st, su) ==
  LET ramBelow(k) == 100 * a < k * t
      zramAbove(k) == l > 0 /\ 100 * c > k * l
      otherBelow(k) == st > 0 /\ 100 * (st - su) < k * st
      high == ramBelow(6) /\ zramAbove(90) /\ (st = 0 \/ otherBelow(15))
      warn == ramBelow(10) /\ (zramAbove(88) \/ otherBelow(12))
      ok == ramBelow(15) /\ (zramAbove(85) \/ otherBelow(20))
  IN IF high THEN "HIGH" ELSE IF warn THEN "WARN" ELSE IF ok THEN "OK" ELSE "SAFE"

\* C7: for total_ram > 0, oom_risk returns the label of the first matching
\* rule in the order HIGH, WARN, OK, SAFE; total=1000, available=59,
\* compr=901, limit=1000 without other swap gives HIGH, available=61 does not.
C7_RiskRules ==
  (ret # <<>> /\ args[1] > 0) =>
     /\ ret[1][1] = C7Label(args[1], args[2], args[3], args[4], args[5], args[6])
     /\ (args = <<1000, 59, 901, 1000, 0, 0>> => ret[1][1] = "HIGH")
     /\ (args = <<1000, 61, 901, 1000, 0, 0>> => ret[1][1] # "HIGH")

\* oom_risk has classified the boundary input of the claim
C7_Witness == args = <<1000, 59, 901, 1000, 0, 0>> /\ ret = <<<<"HIGH", 3, "low RAM, zram near full, swap low">>>>

\* x = (k * d + m * n) / d for the ratio n/d: x is k + m * ratio
IsSum(x, k, m, ratio) == x[1] * ratio[2] = x[2] * (k * ratio[2] + m * ratio[1])

\* limit * max(0, ratio - 1) for the ratio n/d, as a multiple of 1/d
ExtraTimesDen(limit, ratio) == limit * Max(0, ratio[1] - ratio[2])

\* C8 as stated: the projection uses extra_X = limit * max(0, ratio_X - 1):
\* total_X = ram_total + extra_X + other_swap_total and
\* free_X = ram_available + extra_X + max(0, other_swap_total - other_swap_used).
C8_ExtraIsLimitTimesRatioMinusOne ==
  ret # <<>> =>
    LET m == args[1]
        z == args[2]
        s == args[3]
        a == ret[1]
        free == Max(0, s.o_total - s.o_used)
        holds(total, fr, ratio) ==
          /\ total[1] * ratio[2] = total[2] * ((m.total + s.o_total) * ratio[2] + ExtraTimesDen(z.disksize, ratio))
          /\ fr[1] * ratio[2] = fr[2] * ((m.avail + free) * ratio[2] + ExtraTimesDen(z.disksize, ratio))
    IN /\ holds(a.total_cons_bytes, a.free_cons_bytes, z.cons_ratio)
       /\ holds(a.total_opt_bytes, a.free_opt_bytes, z.real_ratio)

\* C8 amended: the projection uses the whole zram capacity limit * ratio_X in
\* the place of extra_X: total_X = ram_total + limit * ratio_X +
\* other_swap_total and free_X = ram_available + limit * ratio_X +
\* max(0, other_swap_total - other_swap_used); the term is never negative,
\* and it is limit * ratio_X also when ratio_X <= 1 (ratio 0.9, limit 1000
\* gives 900, not 0).
C8_CapacityIsLimitTimesRatio ==
  ret # <<>> =>
    LET m == args[1]
        z == args[2]
        s == args[3]
        a == ret[1]
        free == Max(0, s.o_total - s.o_used)
    IN /\ IsSum(a.total_cons_bytes, m.total + s.o_total, z.disksize, z.cons_ratio)
       /\ IsSum(a.free_cons_bytes, m.avail + free, z.disksize, z.cons_ratio)
       /\ IsSum(a.total_opt_bytes, m.total + s.o_total, z.disksize, z.real_ratio)
       /\ IsSum(a.free_opt_bytes, m.avail + free, z.disksize, z.real_ratio)
       /\ a.cons_zram_capacity[1] >= 0 /\ a.opt_zram_capacity[1] >= 0
       /\ (z.real_ratio = <<9, 10>> /\ z.disksize = 1000) => a.opt_zram_capacity = <<900, 1>>

\* the projection was computed for ratio 0.9 and limit 1000
C8_Witness ==
  /\ ret # <<>>
  /\ args[2].real_ratio = <<9, 10>>
  /\ args[2].disksize = 1000
  /\ ret[1].opt_zram_capacity = <<900, 1>>
  /\ ret[1].total_opt_bytes = <<1900 + args[3].o_total, 1>>
  /\ args[1].total = 1000

\* C9: trimming a series of length L to a bound N removes exactly
\* max(0, L - N) entries, all from the front; when N >= L nothing is removed.
C9_TrimRemovesOldestOnly ==
  ret # <<>> =>
    LET dq == args[1]
        n == args[2]
        removed == Max(0, Len(dq) - n)
        r == ret[1]
    IN /\ Len(r) = Len(dq) - removed
       /\ \A k \in 1..Len(r) : r[k] = dq[k + removed]
       /\ (n >= Len(dq) => r = dq)

\* a series of four was trimmed to its last two entries
C9_Witness ==
  /\ args = <<(<<ZERO, <<1, 2>>, ONE, ZERO>>), 2>>
  /\ ret = <<(<<ONE, ZERO>>)>>

\* C10 as stated: after N sampling ticks each series holds the most recent
\* min(N, window_length) samples of its metric, oldest first.
C10_HoldsLastMinNWindow ==
  frame = "full" =>
    \A i \in 1..5 : hists[i] = LastOf(Column(i), Min(Len(log), WindowLength(w)))

\* C10 amended: after N sampling ticks each series holds the most recent K
\* samples of its metric in chronological order (oldest first), none
\* duplicated, reordered or dropped from the middle, where K is at most
\* min(N, window_length) and at least min(N, 60): K = min(N, window_length)
\* unless an earlier tick had a smaller window; what it trimmed stays trimmed.
C10_HoldsLastSamplesInOrder ==
  \A i \in 1..5 :
    /\ Len(hists[i]) <= Len(log)
    /\ hists[i] = LastOf(Column(i), Len(hists[i]))
    /\ Len(hists[i]) >= Min(Len(log), 60)
    /\ (frame = "full" => Len(hists[i]) <= Min(Len(log), WindowLength(w)))

\* the window grew after it had trimmed: fewer samples than the window holds
C10_Witness ==
  /\ frame = "full"
  /\ Len(log) > Len(hist_free_opt)
  /\ Len(hist_free_opt) < WindowLength(w)
  /\ hist_ram = LastOf(Column(1), Len(hist_ram))

\* the ratio the table of C11 maps a name to, in tenths
C11Tenths(a) == IF a = "lzo" THEN 22 ELSE IF a = "zstd" THEN 30 ELSE 20

\* C11: for every set of algorithm names the conservative ratio is the
\* minimum over the set of the mapped ratio (lz4 2.0, lzo 2.2, zstd 3.0,
\* any other name 2.0) and 2.0 for the empty set; get_zramctl_bytes and
\* get_conservative_ratio give the same value for the same set.
C11_ConservativeRatioIsMin ==
  ret # <<>> =>
    LET algos == args[1]
        r == ret[1].monitor
    IN /\ ret[1].free = r
       /\ r[2] \in {1, 5, 10}
       /\ algos = {} => r = <<2, 1>>
       /\ algos # {} =>
            /\ \E a \in algos : r[1] * 10 = C11Tenths(a) * r[2]
            /\ \A a \in algos : r[1] * 10 <= C11Tenths(a) * r[2]
       /\ algos = {"lz4", "zstd"} => r = <<2, 1>>
       /\ algos = {"zstd"} => r = <<3, 1>>
       /\ algos = {"lzo-rle"} => r = <<2, 1>>

\* both programs gave 2.2 for lzo with zstd
C11_Witness ==
  /\ args = <<{"lzo", "zstd"}>>
  /\ ret = <<[monitor |-> <<11, 5>>, free |-> <<11, 5>>]>>

\* no exception leaves the call and every cell written is on the screen
C12InBounds ==
  /\ ~ret[1].raised
  /\ \A c \in ret[1].cells : 0 <= c[1] /\ c[1] < args[1] /\ 0 <= c[2] /\ c[2] < args[2]

\* C12 as stated: safe_addstr never raises and never writes outside the
\* h x w screen, and a string that would extend past the right edge is cut
\* at the boundary column: the cells written are columns x .. w-1 of row y.
C12_TruncatesAtBoundaryColumn ==
  ret # <<>> =>
    /\ C12InBounds
    /\ (/\ 0 <= args[3] /\ args[3] < args[1]
        /\ 0 <= args[4] /\ args[4] < args[2]
        /\ args[4] + Len(args[5]) > args[2])
         => {<<c[1], c[2]>> : c \in ret[1].cells} = {<<args[3], col>> : col \in args[4]..(args[2] - 1)}

\* C12 amended: safe_addstr never raises and never writes outside the h x w
\* screen; it writes to row y only, character by character from column
\* max(x, 0) (dropping the -x characters left of the screen when x < 0), and
\* cuts the string one column before the right edge: the cells written are
\* columns max(x, 0) .. min(x + len(s) - 1, w - 2) of row y, the last column
\* w-1 is never written, and nothing is written when y is off the screen.
C12_TruncatesBeforeLastColumn ==
  ret # <<>> =>
    LET height == args[1]
        width == args[2]
        y == args[3]
        x == args[4]
        n == Len(args[5])
    IN /\ C12InBounds
       /\ \A c \in ret[1].cells : c[2] # width - 1
       /\ ret[1].cells =
            IF 0 <= y /\ y < height
              THEN {<<y, col, col - x + 1>> : col \in Max(x, 0)..Min(x + n - 1, width - 2)}
              ELSE {}

\* a string of 6 written at column 1 of a 4-column row: columns 1 and 2
C12_Witness ==
  /\ args = <<2, 4, 1, 1, <<1, 2, 3, 4, 5, 6>>>>
  /\ ret = <<[raised |-> FALSE, cells |-> {<<1, 1, 1>>, <<1, 2, 2>>}]>>

\* C13 as stated: a speed key pressed during the wait does not move the
\* pending tick: the tick fires when the interval in force when the wait
\* began has elapsed, not earlier and not later.
C13_PendingTickKeepsItsInterval ==
  /\ [][IsTick => now - last_tick >= wait_refresh]_vars
  /\ [][(~IsTick /\ now' # now) => now - last_tick < wait_refresh]_vars

\* C13 amended: a speed key changes the refresh interval at once, for the
\* pending tick too: in every loop iteration the elapsed time is compared
\* with the interval as the keys read so far have left it, so the pending
\* tick fires in the first iteration in which now - last_tick >= refresh
\* holds for the current refresh; a faster key can make it fire earlier and
\* a slower key later than the interval in force when the wait began.
C13_PendingTickFollowsCurrentInterval ==
  /\ [][IsTick => now - last_tick >= refresh]_vars
  /\ [][(~IsTick /\ now' # now) => now - last_tick < refresh]_vars
  /\ [][(~IsTick /\ key' \in {"+", "="} /\ refresh > MIN_REFRESH) => refresh' < refresh]_vars
  /\ [][(~IsTick /\ key' \in {"-", "_"} /\ refresh < MAX_REFRESH) => refresh' > refresh]_vars

\* faster keys in the wait have made the pending tick due before the
\* interval the wait began with has elapsed
C13_Witness ==
  /\ pc = "loop"
  /\ now - last_tick >= refresh
  /\ now - last_tick < wait_refresh
  /\ key \in {"+", "="}
  /\ last_tick > 0

\* C14: whenever total RAM is 0 or below, oom_risk gives UNKNOWN with the
\* rationale 'no RAM data' whatever the other inputs are, nothing is divided
\* by the total (RAM used is taken as 0), and the tick that gets this result
\* completes with the normal frame and one sample, and the loop goes on.
C14_NoRamDataIsUnknown ==
  /\ []((ret # <<>> /\ args[1] <= 0) => ret[1] = <<"UNKNOWN", 2, "no RAM data">>)
  /\ [][(IsTick /\ args[1] <= 0)
          => (/\ risk_label' = "UNKNOWN"
              /\ frame' = "full"
              /\ pc' = "loop"
              /\ Len(log') = Len(log) + 1
              /\ hist_ram'[Len(hist_ram')] = ZERO)]_vars

\* two ticks ran on a RAM total of 0 with zram over its limit elsewhere
C14_Witness ==
  /\ args[1] = 0 /\ args[3] = 1100 /\ args[4] = 1000
  /\ ret = <<<<"UNKNOWN", 2, "no RAM data">>>>
  /\ risk_label = "UNKNOWN"
  /\ frame = "full"
  /\ pc = "loop"
  /\ Len(log) = 2

\* C15: reading a key that is none of 'q', '+', '=', '-', '_' (no key
\* pending included) leaves the refresh interval, the tick timer, the five
\* history series and the loop state unchanged; only the poll's sleep passes.
C15_OtherKeysIgnored ==
  [][(~IsTick /\ now' # now /\ key' \notin {"q", "+", "=", "-", "_"})
       => (/\ key' \in {"x", "ERR"}
           /\ pc' = "loop" /\ pc = "loop"
           /\ UNCHANGED <<refresh, last_tick, wait_refresh, hist_ram, hist_zram, hist_other_swap,
                          hist_free_cons, hist_free_opt, log, frame, risk_label, w>>)]_vars

\* an unmapped key was read after the interval had been changed and a tick had run
C15_Witness ==
  /\ key = "x"
  /\ polled
  /\ refresh = MIN_REFRESH
  /\ frame = "full"
  /\ now = last_tick + 2

\* C16: within one tick the steps run in the order sample and assess,
\* append to history, trim, render and flush the frame, and only then reset
\* the tick timer: when a tick has completed, the timer has been reset after
\* the frame was flushed, so it holds the time at which the tick ended.
C16_TimerResetAfterRender == [][IsTick => last_tick' = now']_vars

\* |a|
C17Abs(a) == IF a >= 0 THEN a ELSE -a

\* the ramp glyphs whose level 0..7 is nearest to 7 times the sample
C17Glyphs(v) ==
  {SPARK_CHARS[l + 1] : l \in {l1 \in 0..7 : \A l2 \in 0..7 :
       C17Abs(7 * v[1] - l1 * v[2]) <= C17Abs(7 * v[1] - l2 * v[2])}}

\* C17: for width > 0 sparkline returns exactly width cells: the last
\* min(len, width) samples in order, right-aligned, each as one of the 8
\* ramp glyphs (the one nearest to the sample), with blanks to their left
\* when the samples are fewer than the width; for width <= 0 it returns the
\* empty string.
C17_SparklineShape ==
  ret # <<>> =>
    LET values == args[1]
        width == args[2]
        out == ret[1]
        k == Min(Len(values), width)
    IN IF width <= 0 THEN out = <<>>
       ELSE /\ Len(out) = width
            /\ \A i \in 1..(width - k) : out[i] = " "
            /\ \A j \in 1..k : out[width - k + j] \in C17Glyphs(values[Len(values) - k + j])
            /\ \A j \in 1..k : \E l \in 1..8 : out[width - k + j] = SPARK_CHARS[l]

\* three samples were drawn in a width of five
C17_Witness ==
  /\ args = <<(<<ZERO, <<1, 4>>, ONE>>), 5>>
  /\ ret = <<(<<" ", " ", "1/8", "3/8", "8/8">>)>>

\* C18: every value stored in any of the five history series is within
\* [0, 1] in every reachable state, whatever the data sources report:
\* available above total, other swap used above its total and compressed
\* above the limit included.
C18_HistoryValuesInUnitInterval ==
  \A i \in 1..5 : \A k \in 1..Len(hists[i]) :
    ~RLt(hists[i][k], ZERO) /\ ~RLt(ONE, hists[i][k])

\* a tick sampled available > total, compressed > limit and swap used > total
C18_Witness ==
  /\ args[2] > args[1] /\ args[1] > 0
  /\ args[3] > args[4] /\ args[4] > 0
  /\ args[6] > args[5] /\ args[5] > 0
  /\ hist_ram = <<ZERO>>
  /\ hist_zram = <<ONE>>
  /\ hist_other_swap = <<ONE>>

\* C19: between ticks the five history series have the same length: a tick
\* either appends exactly one sample to each of the five and trims all five
\* to the same bound, or changes none of them.
C19_SeriesSameLength ==
  /\ [](\A i \in 1..5 : Len(hists[i]) = Len(hist_ram))
  /\ [][\/ UNCHANGED hists
        \/ /\ Len(log') = Len(log) + 1
           /\ \A i \in 1..5 :
                /\ Len((hists')[i]) = Min(Len(hists[i]) + 1, WindowLength(w'))
                /\ (hists')[i] = LastOf(Append(hists[i], log'[Len(log')][i]), Len((hists')[i]))]_vars

\* all five series were trimmed to 60 and a later tick changed none of them
C19_Witness ==
  /\ \A i \in 1..5 : Len(hists[i]) = 60
  /\ Len(log) = 63
  /\ frame = "error"

\* the severity of a label, in the order SAFE < OK < WARN < HIGH
C20Severity(label) ==
  IF label = "SAFE" THEN 0 ELSE IF label = "OK" THEN 1 ELSE IF label = "WARN" THEN 2 ELSE 3

\* the condition of each rule on the inputs, on integers: <<HIGH, WARN, OK>>
C20Rules(t, a, c, l, st, su) ==
  LET ramBelow(k) == 100 * a < k * t
      zramAbove(k) == l > 0 /\ 100 * c > k * l
      otherBelow(k) == st > 0 /\ 100 * (st - su) < k * st
  IN <<ramBelow(6) /\ zramAbove(90) /\ (st = 0 \/ otherBelow(15)),
       ramBelow(10) /\ (zramAbove(88) \/ otherBelow(12)),
       ramBelow(15) /\ (zramAbove(85) \/ otherBelow(20))>>

\* C20: the risk rules are nested (the condition of HIGH implies that of
\* WARN, that of WARN implies that of OK), and oom_risk is monotone in
\* available RAM: for a fixed total_ram > 0 and fixed zram and other-swap
\* inputs, a lower available RAM never gives a less severe label.
C20_MonotoneInAvailableRam ==
  (ret # <<>> /\ args[1] > 0) =>
    LET rules == C20Rules(args[1], args[2], args[3], args[4], args[5], args[6])
    IN /\ rules[1] => rules[2]
       /\ rules[2] => rules[3]
       /\ ret[1][1] \in {"SAFE", "OK", "WARN", "HIGH"}
       /\ \A lower \in {a \in RiskAvails : a < args[2]} :
            C20Severity(oom_risk(args[1], lower, args[3], args[4], args[5], args[6])[1])
              >= C20Severity(ret[1][1])

\* an input classified OK that lower available RAM moves to WARN and to HIGH
C20_Witness ==
  /\ args = <<1000, 100, 901, 1000, 0, 0>>
  /\ ret = <<<<"OK", 2, "watching (pressure rising)">>>>
  /\ oom_risk(1000, 99, 901, 1000, 0, 0)[1] = "WARN"
  /\ oom_risk(1000, 59, 901, 1000, 0, 0)[1] = "HIGH"

\* C21: any two consecutive ticks, whether they end in the full frame, the
\* no-device notice or the data-error notice, start at least the current
\* refresh interval apart on the loop's clock: a tick starts only when
\* now - last_tick >= refresh, and every step that reads the terminal width,
\* calls the providers or draws a frame of any kind is a tick that resets
\* last_tick to its own start, so a failing or empty data source never
\* makes the loop sample back-to-back.
C21_TicksAtLeastRefreshApart ==
  /\ [][IsTick => (now - last_tick >= refresh /\ last_tick' = now /\ now - last_tick >= MIN_REFRESH)]_vars
  /\ [][(frame' # frame \/ src' # src \/ w' # w \/ log' # log \/ risk_label' # risk_label)
          => (IsTick /\ frame' \in {"error", "nodevice", "full"})]_vars
  /\ [](frame \in {"error", "nodevice"} => last_tick > 0 /\ now >= last_tick)

\* a full tick at 10, the data-error tick one interval later at 20, and the
\* loop back in its wait
C21_Witness ==
  /\ frame = "error"
  /\ Len(log) = 1
  /\ refresh = MIN_REFRESH
  /\ last_tick = 2 * MIN_REFRESH
  /\ now = last_tick + 1
  /\ polled
  /\ pc = "loop"

====
